---- MODULE Spec2Model ----
(***************************************************************************)
(* Model of class Messenger (src/msg/Messenger.h): the dispatcher chain,   *)
(* the delivery loops over it, the start/shutdown flag that guards the     *)
(* default send priority, and the Policy value type.                       *)
(*                                                                         *)
(* Every method of the class is one action.  Dispatcher callbacks are the  *)
(* environment: their return values are chosen with \E.  A failed assert   *)
(* aborts the process, after which no method can run.                      *)
(*                                                                         *)
(* Spec        every method, called one at a time                          *)
(* SpecDeliver the six deliveries over every chain                         *)
(* SpecPolicy  the Policy constructors                                     *)
(* SpecConc    add_dispatcher_head/tail called by two threads without a    *)
(*             lock, one statement per step                                *)
(***************************************************************************)
EXTENDS Integers, Sequences, FiniteSets

\* ---------------------------------------------------------------- bounds
\* longest dispatcher chain explored
MaxChain == 3
\* width of the feature bitmasks explored (uint64_t in the source)
FeatureBits == 3

\* ------------------------------------------------------------ input sets
Dispatchers == {"A", "B", "C"}
Names == {"client.99", "osd.0"}
NoDispatcher == "-"

Ports == {0, 6800}

\* ------------------------------------------------- constants of the code
\* the baseline feature mask of include/ceph_features.h, cut to FeatureBits
\* bits: a mask with bits set and bits clear
CEPH_FEATURES_SUPPORTED_DEFAULT == 5
\* include/msgr.h
CEPH_MSG_PRIO_DEFAULT == 127
\* errno.h
EOPNOTSUPP == 95

Priorities == {CEPH_MSG_PRIO_DEFAULT, CEPH_MSG_PRIO_DEFAULT + 1}
Masks == 0 .. (2^FeatureBits - 1)

VARIABLES
  dispatchers,            \* list<Dispatcher*> dispatchers
  my_name,                \* entity_name_t _my_name
  default_send_priority,  \* int default_send_priority
  started,                \* bool started
  fault,                  \* "none", or the assertion that aborted the process
  last,                   \* the most recent call: its callbacks, in order, and its result
  headIns,                \* history: arguments of add_dispatcher_head, in call order
  tailIns,                \* history: arguments of add_dispatcher_tail, in call order
  readyLog,               \* history: the chain as seen by each ready() call
  everStarted,            \* history: start() has been called
  policy,                 \* the Policy value built last
  policyCall,             \* the constructor and arguments that built it
  thr                     \* threads inside add_dispatcher_head/tail: position and locals

msgrVars == <<dispatchers, my_name, default_send_priority, started>>
histVars == <<headIns, tailIns, readyLog, everStarted>>
policyVars == <<policy, policyCall>>
vars == <<dispatchers, my_name, default_send_priority, started, fault, last,
          headIns, tailIns, readyLog, everStarted, policy, policyCall, thr>>

\* ------------------------------------------------------------- helpers
Reverse(s) == [i \in 1 .. Len(s) |-> s[Len(s) + 1 - i]]

\* one step of a call: a callback made on dispatcher d, or an internal step
Event(name, d) == [ev |-> name, d |-> d]

\* the record of a call: operation, argument, callback answers, steps, result
Call(op, arg, ans, events, ret) ==
  [op |-> op, arg |-> arg, ans |-> ans, events |-> events, ret |-> ret]

\* the dispatchers on which callback cb was made during call c, in order
Invoked(c, cb) ==
  LET s == SelectSeq(c.events, LAMBDA e : e.ev = cb)
  IN  [i \in 1 .. Len(s) |-> s[i].d]

\* ----------------------------------------------------------------- Policy
RECURSIVE BitOr(_, _)
BitOr(a, b) ==
  IF a = 0 THEN b
  ELSE IF b = 0 THEN a
  ELSE (IF a % 2 = 1 \/ b % 2 = 1 THEN 1 ELSE 0) + 2 * BitOr(a \div 2, b \div 2)

\* Policy()
PolicyDefault ==
  [lossy |-> FALSE, server |-> FALSE, throttler |-> "NULL",
   features_supported |-> CEPH_FEATURES_SUPPORTED_DEFAULT,
   features_required |-> 0]

\* variant: the 4-argument constructor stores sup without the baseline mask
PolicyWithoutBaseline(l, s, sup, req) ==
  [lossy |-> l, server |-> s, throttler |-> "NULL",
   features_supported |-> sup,
   features_required |-> req]

\* Policy(bool l, bool s, uint64_t sup, uint64_t req)
Policy(l, s, sup, req) ==
  [lossy |-> l, server |-> s, throttler |-> "NULL",
   features_supported |-> BitOr(sup, CEPH_FEATURES_SUPPORTED_DEFAULT),
   features_required |-> req]

stateful_server(sup, req) == Policy(FALSE, TRUE, sup, req)

\* variant: stateless_server built with the flags of stateful_server
stateless_server_lossless(sup, req) == Policy(FALSE, TRUE, sup, req)

stateless_server(sup, req) == Policy(TRUE, TRUE, sup, req)
lossless_peer(sup, req) == Policy(FALSE, FALSE, sup, req)
client(sup, req) == Policy(FALSE, FALSE, sup, req)

\* the constructor called and its arguments (l and s are arguments of the
\* 4-argument constructor only, sup and req are 0 for Policy())
PolicyCall(ctor, l, s, sup, req) ==
  [ctor |-> ctor, l |-> l, s |-> s, sup |-> sup, req |-> req]

\* ---------------------------------------------------------------- threads
Threads == {"t1", "t2"}

\* a thread that is in no call
IdleThread ==
  [pc |-> "idle", op |-> "-", d |-> NoDispatcher, first |-> FALSE,
   list |-> <<>>, raced |-> FALSE]

\* ------------------------------------------------------------------ Init
\* Messenger(CephContext *cct_, entity_name_t w)
Init ==
  /\ dispatchers = <<>>
  /\ my_name \in Names
  /\ default_send_priority = CEPH_MSG_PRIO_DEFAULT
  /\ started = FALSE
  /\ fault = "none"
  /\ last = Call("Messenger", NoDispatcher, <<>>, <<>>, 0)
  /\ headIns = <<>>
  /\ tailIns = <<>>
  /\ readyLog = <<>>
  /\ everStarted = FALSE
  /\ policy = PolicyDefault
  /\ policyCall = PolicyCall("Policy", FALSE, FALSE, 0, 0)
  /\ thr = [t \in Threads |-> IdleThread]

\* the process has not aborted
Running == fault = "none"

\* --------------------------------------------------- identity, lifecycle
\* void set_myname(const entity_name_t m)
set_myname(m) ==
  /\ Running
  /\ my_name' = m
  /\ last' = Call("set_myname", NoDispatcher, <<>>, <<>>, 0)
  /\ UNCHANGED <<dispatchers, default_send_priority, started, fault>>
  /\ UNCHANGED histVars
  /\ UNCHANGED policyVars
  /\ UNCHANGED thr

\* variant: set_default_send_priority without its assertion
set_default_send_priority_unchecked(p) ==
  /\ Running
  /\ default_send_priority' = p
  /\ last' = Call("set_default_send_priority", p, <<>>, <<>>, 0)
  /\ UNCHANGED <<dispatchers, my_name, started, fault>>
  /\ UNCHANGED histVars
  /\ UNCHANGED policyVars
  /\ UNCHANGED thr

\* void set_default_send_priority(int p)
set_default_send_priority(p) ==
  /\ Running
  /\ IF ~started
       THEN /\ default_send_priority' = p
            /\ fault' = fault
            /\ last' = Call("set_default_send_priority", p, <<>>, <<>>, 0)
       ELSE /\ default_send_priority' = default_send_priority
            /\ fault' = "assert(!started)"
            /\ last' = Call("set_default_send_priority", p, <<>>,
                            <<Event("assert", NoDispatcher)>>, 0)
  /\ UNCHANGED <<dispatchers, my_name, started>>
  /\ UNCHANGED histVars
  /\ UNCHANGED policyVars
  /\ UNCHANGED thr

\* int get_default_send_priority()
get_default_send_priority == default_send_priority

\* virtual int start()
start ==
  /\ Running
  /\ started' = TRUE
  /\ everStarted' = TRUE
  /\ last' = Call("start", NoDispatcher, <<>>, <<>>, 0)
  /\ UNCHANGED <<dispatchers, my_name, default_send_priority, fault>>
  /\ UNCHANGED <<headIns, tailIns, readyLog>>
  /\ UNCHANGED policyVars
  /\ UNCHANGED thr

\* virtual int shutdown()
shutdown ==
  /\ Running
  /\ started' = FALSE
  /\ last' = Call("shutdown", NoDispatcher, <<>>, <<>>, 0)
  /\ UNCHANGED <<dispatchers, my_name, default_send_priority, fault>>
  /\ UNCHANGED histVars
  /\ UNCHANGED policyVars
  /\ UNCHANGED thr

\* ------------------------------------------------------ dispatcher chain
\* variant: push_front that inserts at the back
push_front_at_back(l, d) == Append(l, d)

\* list::push_front
push_front(l, d) == <<d>> \o l

\* variant: push_back that skips a dispatcher the list already holds
push_back_unique(l, d) ==
  IF \E i \in DOMAIN l : l[i] = d THEN l ELSE Append(l, d)

\* list::push_back
push_back(l, d) == Append(l, d)

\* variant: is_ready without the negation
is_ready_negated == dispatchers = <<>>

\* bool is_ready()
is_ready == dispatchers # <<>>

\* variant: add_dispatcher_head that calls ready() before the push_front
add_dispatcher_head_ready_first(d) ==
  /\ Running
  /\ Len(dispatchers) < MaxChain
  /\ LET first == dispatchers = <<>>
     IN  /\ readyLog' = IF first THEN Append(readyLog, dispatchers) ELSE readyLog
         /\ dispatchers' = push_front(dispatchers, d)
         /\ last' = Call("add_dispatcher_head", d, <<>>,
                         IF first THEN <<Event("ready", NoDispatcher)>> ELSE <<>>, 0)
  /\ headIns' = Append(headIns, d)
  /\ UNCHANGED <<my_name, default_send_priority, started, fault>>
  /\ UNCHANGED <<tailIns, everStarted>>
  /\ UNCHANGED policyVars
  /\ UNCHANGED thr

\* void add_dispatcher_head(Dispatcher *d)
add_dispatcher_head(d) ==
  /\ Running
  /\ Len(dispatchers) < MaxChain
  /\ LET first == dispatchers = <<>>
     IN  /\ dispatchers' = push_front(dispatchers, d)
         /\ readyLog' = IF first THEN Append(readyLog, dispatchers') ELSE readyLog
         /\ last' = Call("add_dispatcher_head", d, <<>>,
                         IF first THEN <<Event("ready", NoDispatcher)>> ELSE <<>>, 0)
  /\ headIns' = Append(headIns, d)
  /\ UNCHANGED <<my_name, default_send_priority, started, fault>>
  /\ UNCHANGED <<tailIns, everStarted>>
  /\ UNCHANGED policyVars
  /\ UNCHANGED thr

\* variant: add_dispatcher_tail that calls ready() on every insertion
add_dispatcher_tail_always_ready(d) ==
  /\ Running
  /\ Len(dispatchers) < MaxChain
  /\ dispatchers' = push_back(dispatchers, d)
  /\ readyLog' = Append(readyLog, dispatchers')
  /\ last' = Call("add_dispatcher_tail", d, <<>>,
                  <<Event("ready", NoDispatcher)>>, 0)
  /\ tailIns' = Append(tailIns, d)
  /\ UNCHANGED <<my_name, default_send_priority, started, fault>>
  /\ UNCHANGED <<headIns, everStarted>>
  /\ UNCHANGED policyVars
  /\ UNCHANGED thr

\* void add_dispatcher_tail(Dispatcher *d)
add_dispatcher_tail(d) ==
  /\ Running
  /\ Len(dispatchers) < MaxChain
  /\ LET first == dispatchers = <<>>
     IN  /\ dispatchers' = push_back(dispatchers, d)
         /\ readyLog' = IF first THEN Append(readyLog, dispatchers') ELSE readyLog
         /\ last' = Call("add_dispatcher_tail", d, <<>>,
                         IF first THEN <<Event("ready", NoDispatcher)>> ELSE <<>>, 0)
  /\ tailIns' = Append(tailIns, d)
  /\ UNCHANGED <<my_name, default_send_priority, started, fault>>
  /\ UNCHANGED <<headIns, everStarted>>
  /\ UNCHANGED policyVars
  /\ UNCHANGED thr

\* ------------------------------------------------------ delivery loops
\* the callback answers of one delivery: one return value per chain entry
Answers(chain) == [1 .. Len(chain) -> BOOLEAN]

\* variant: the claim loop without its return, so no entry is skipped
RECURSIVE ClaimLoopNoReturn(_, _, _, _)
ClaimLoopNoReturn(chain, ans, cb, i) ==
  IF i > Len(chain) THEN [events |-> <<>>, claimed |-> FALSE]
  ELSE LET rest == ClaimLoopNoReturn(chain, ans, cb, i + 1)
       IN  [events |-> <<Event(cb, chain[i])>> \o rest.events,
            claimed |-> ans[i] \/ rest.claimed]

\* for (p = begin; p != end; p++) if ((*p)->cb(..)) return;   from entry i on
RECURSIVE ClaimLoop(_, _, _, _)
ClaimLoop(chain, ans, cb, i) ==
  IF i > Len(chain) THEN [events |-> <<>>, claimed |-> FALSE]
  ELSE IF ans[i] THEN [events |-> <<Event(cb, chain[i])>>, claimed |-> TRUE]
  ELSE LET rest == ClaimLoop(chain, ans, cb, i + 1)
       IN  [events |-> <<Event(cb, chain[i])>> \o rest.events,
            claimed |-> rest.claimed]

\* variant: the broadcast loop that stops at the first true return value
RECURSIVE BroadcastLoopStops(_, _, _, _)
BroadcastLoopStops(chain, ans, cb, i) ==
  IF i > Len(chain) THEN <<>>
  ELSE IF ans[i] THEN <<Event(cb, chain[i])>>
  ELSE <<Event(cb, chain[i])>> \o BroadcastLoopStops(chain, ans, cb, i + 1)

\* for (p = begin; p != end; p++) (*p)->cb(..);   from entry i on
RECURSIVE BroadcastLoop(_, _, _, _)
BroadcastLoop(chain, ans, cb, i) ==
  IF i > Len(chain) THEN <<>>
  ELSE <<Event(cb, chain[i])>> \o BroadcastLoop(chain, ans, cb, i + 1)

\* variant: ms_deliver_dispatch that stamps the message once it is claimed
ms_deliver_dispatch_stamps_late ==
  /\ Running
  /\ \E ans \in Answers(dispatchers) :
       LET stamp == <<Event("set_dispatch_stamp", NoDispatcher)>>
           loop == ClaimLoop(dispatchers, ans, "ms_dispatch", 1)
       IN  IF loop.claimed
             THEN /\ last' = Call("ms_deliver_dispatch", NoDispatcher, ans,
                                  loop.events \o stamp, 0)
                  /\ fault' = fault
             ELSE /\ last' = Call("ms_deliver_dispatch", NoDispatcher, ans,
                                  loop.events
                                    \o <<Event("dout_emergency", NoDispatcher),
                                         Event("assert", NoDispatcher)>>, 0)
                  /\ fault' = "assert(0)"
  /\ UNCHANGED msgrVars
  /\ UNCHANGED histVars
  /\ UNCHANGED policyVars
  /\ UNCHANGED thr

\* variant: ms_deliver_dispatch that drops an unclaimed message and returns
ms_deliver_dispatch_drops ==
  /\ Running
  /\ \E ans \in Answers(dispatchers) :
       last' = Call("ms_deliver_dispatch", NoDispatcher, ans,
                    <<Event("set_dispatch_stamp", NoDispatcher)>>
                      \o ClaimLoop(dispatchers, ans, "ms_dispatch", 1).events, 0)
  /\ UNCHANGED fault
  /\ UNCHANGED msgrVars
  /\ UNCHANGED histVars
  /\ UNCHANGED policyVars
  /\ UNCHANGED thr

\* void ms_deliver_dispatch(Message *m)
ms_deliver_dispatch ==
  /\ Running
  /\ \E ans \in Answers(dispatchers) :
       LET stamp == <<Event("set_dispatch_stamp", NoDispatcher)>>
           loop == ClaimLoop(dispatchers, ans, "ms_dispatch", 1)
       IN  IF loop.claimed
             THEN /\ last' = Call("ms_deliver_dispatch", NoDispatcher, ans,
                                  stamp \o loop.events, 0)
                  /\ fault' = fault
             ELSE /\ last' = Call("ms_deliver_dispatch", NoDispatcher, ans,
                                  stamp \o loop.events
                                    \o <<Event("dout_emergency", NoDispatcher),
                                         Event("assert", NoDispatcher)>>, 0)
                  /\ fault' = "assert(0)"
  /\ UNCHANGED msgrVars
  /\ UNCHANGED histVars
  /\ UNCHANGED policyVars
  /\ UNCHANGED thr

\* void ms_deliver_handle_connect(Connection *con)
ms_deliver_handle_connect ==
  /\ Running
  /\ \E ans \in Answers(dispatchers) :
       last' = Call("ms_deliver_handle_connect", NoDispatcher, ans,
                    BroadcastLoop(dispatchers, ans, "ms_handle_connect", 1), 0)
  /\ UNCHANGED fault
  /\ UNCHANGED msgrVars
  /\ UNCHANGED histVars
  /\ UNCHANGED policyVars
  /\ UNCHANGED thr

\* variant: ms_deliver_handle_reset that ignores the return values
ms_deliver_handle_reset_broadcast ==
  /\ Running
  /\ \E ans \in Answers(dispatchers) :
       last' = Call("ms_deliver_handle_reset", NoDispatcher, ans,
                    BroadcastLoop(dispatchers, ans, "ms_handle_reset", 1), 0)
  /\ UNCHANGED fault
  /\ UNCHANGED msgrVars
  /\ UNCHANGED histVars
  /\ UNCHANGED policyVars
  /\ UNCHANGED thr

\* variant: ms_deliver_handle_reset that treats an unclaimed reset as fatal
ms_deliver_handle_reset_fatal ==
  /\ Running
  /\ \E ans \in Answers(dispatchers) :
       LET loop == ClaimLoop(dispatchers, ans, "ms_handle_reset", 1)
       IN  IF loop.claimed
             THEN /\ last' = Call("ms_deliver_handle_reset", NoDispatcher, ans,
                                  loop.events, 0)
                  /\ fault' = fault
             ELSE /\ last' = Call("ms_deliver_handle_reset", NoDispatcher, ans,
                                  loop.events
                                    \o <<Event("dout_emergency", NoDispatcher),
                                         Event("assert", NoDispatcher)>>, 0)
                  /\ fault' = "assert(0)"
  /\ UNCHANGED msgrVars
  /\ UNCHANGED histVars
  /\ UNCHANGED policyVars
  /\ UNCHANGED thr

\* void ms_deliver_handle_reset(Connection *con)
ms_deliver_handle_reset ==
  /\ Running
  /\ \E ans \in Answers(dispatchers) :
       last' = Call("ms_deliver_handle_reset", NoDispatcher, ans,
                    ClaimLoop(dispatchers, ans, "ms_handle_reset", 1).events, 0)
  /\ UNCHANGED fault
  /\ UNCHANGED msgrVars
  /\ UNCHANGED histVars
  /\ UNCHANGED policyVars
  /\ UNCHANGED thr

\* void ms_deliver_handle_remote_reset(Connection *con)
ms_deliver_handle_remote_reset ==
  /\ Running
  /\ \E ans \in Answers(dispatchers) :
       last' = Call("ms_deliver_handle_remote_reset", NoDispatcher, ans,
                    BroadcastLoop(dispatchers, ans, "ms_handle_remote_reset", 1), 0)
  /\ UNCHANGED fault
  /\ UNCHANGED msgrVars
  /\ UNCHANGED histVars
  /\ UNCHANGED policyVars
  /\ UNCHANGED thr

\* ------------------------------------------------------ authorizers
\* AuthAuthorizer *a = 0;  an authorizer is named by the position of the
\* chain entry whose callback built it
NullAuthorizer == 0

\* what one ms_get_authorizer callback does: its return value, and whether
\* it stores an authorizer of its own through the out-parameter a
AuthAnswers(chain) ==
  [1 .. Len(chain) -> [ret : BOOLEAN, out : {"keep", "new"}]]

\* variant: the authorizer loop without its return
RECURSIVE AuthLoopNoReturn(_, _, _, _)
AuthLoopNoReturn(chain, ans, a, i) ==
  IF i > Len(chain) THEN [events |-> <<>>, ret |-> NullAuthorizer]
  ELSE LET rest == AuthLoopNoReturn(chain, ans,
                                    IF ans[i].out = "new" THEN i ELSE a, i + 1)
       IN  [events |-> <<Event("ms_get_authorizer", chain[i])>> \o rest.events,
            ret |-> rest.ret]

\* for (..) if ((*p)->ms_get_authorizer(peer_type, &a, force_new)) return a;
\* return NULL;   from entry i on, a holding what was stored so far
RECURSIVE AuthLoop(_, _, _, _)
AuthLoop(chain, ans, a, i) ==
  IF i > Len(chain) THEN [events |-> <<>>, ret |-> NullAuthorizer]
  ELSE LET a2 == IF ans[i].out = "new" THEN i ELSE a
       IN  IF ans[i].ret
             THEN [events |-> <<Event("ms_get_authorizer", chain[i])>>, ret |-> a2]
             ELSE LET rest == AuthLoop(chain, ans, a2, i + 1)
                  IN  [events |-> <<Event("ms_get_authorizer", chain[i])>>
                                    \o rest.events,
                       ret |-> rest.ret]

\* AuthAuthorizer *ms_deliver_get_authorizer(int peer_type, bool force_new)
ms_deliver_get_authorizer ==
  /\ Running
  /\ \E ans \in AuthAnswers(dispatchers) :
       LET loop == AuthLoop(dispatchers, ans, NullAuthorizer, 1)
       IN  last' = Call("ms_deliver_get_authorizer", NoDispatcher, ans,
                        loop.events, loop.ret)
  /\ UNCHANGED fault
  /\ UNCHANGED msgrVars
  /\ UNCHANGED histVars
  /\ UNCHANGED policyVars
  /\ UNCHANGED thr

\* variant: ms_deliver_verify_authorizer that returns isvalid
ms_deliver_verify_authorizer_returns_isvalid ==
  /\ Running
  /\ \E ans \in Answers(dispatchers), isvalid \in BOOLEAN :
       LET loop == ClaimLoop(dispatchers, ans, "ms_verify_authorizer", 1)
       IN  last' = Call("ms_deliver_verify_authorizer", isvalid, ans,
                        loop.events, loop.claimed /\ isvalid)
  /\ UNCHANGED fault
  /\ UNCHANGED msgrVars
  /\ UNCHANGED histVars
  /\ UNCHANGED policyVars
  /\ UNCHANGED thr

\* bool ms_deliver_verify_authorizer(Connection *con, int peer_type,
\*     int protocol, bufferlist& authorizer, bufferlist& authorizer_reply,
\*     bool& isvalid)
\* isvalid is written by the callbacks only; its value after the call is
\* recorded as the call's argument
ms_deliver_verify_authorizer ==
  /\ Running
  /\ \E ans \in Answers(dispatchers), isvalid \in BOOLEAN :
       LET loop == ClaimLoop(dispatchers, ans, "ms_verify_authorizer", 1)
       IN  last' = Call("ms_deliver_verify_authorizer", isvalid, ans,
                        loop.events, loop.claimed)
  /\ UNCHANGED fault
  /\ UNCHANGED msgrVars
  /\ UNCHANGED histVars
  /\ UNCHANGED policyVars
  /\ UNCHANGED thr

\* ------------------------------------------------------ transport facade
\* variant: rebind that reports success
rebind_reports_success(avoid_port) ==
  /\ Running
  /\ last' = Call("rebind", avoid_port, <<>>, <<>>, 0)
  /\ UNCHANGED fault
  /\ UNCHANGED msgrVars
  /\ UNCHANGED histVars
  /\ UNCHANGED policyVars
  /\ UNCHANGED thr

\* virtual int rebind(int avoid_port)
rebind(avoid_port) ==
  /\ Running
  /\ last' = Call("rebind", avoid_port, <<>>, <<>>, -EOPNOTSUPP)
  /\ UNCHANGED fault
  /\ UNCHANGED msgrVars
  /\ UNCHANGED histVars
  /\ UNCHANGED policyVars
  /\ UNCHANGED thr

\* ------------------------------------------------------------------ Next
Next ==
  \/ \E m \in Names : set_myname(m)
  \/ \E p \in Priorities : set_default_send_priority(p)
  \/ start
  \/ shutdown
  \/ \E d \in Dispatchers : add_dispatcher_head(d)
  \/ \E d \in Dispatchers : add_dispatcher_tail(d)
  \/ ms_deliver_dispatch
  \/ ms_deliver_handle_connect
  \/ ms_deliver_handle_reset
  \/ ms_deliver_handle_remote_reset
  \/ \E avoid_port \in Ports : rebind(avoid_port)

Spec == Init /\ [][Next]_vars

\* ------------------------------------------------------- deliveries
\* the six deliveries over every chain; the deliveries read the chain only,
\* and add_dispatcher_tail alone builds every chain
NextDeliver ==
  \/ \E d \in Dispatchers : add_dispatcher_tail(d)
  \/ ms_deliver_dispatch
  \/ ms_deliver_handle_connect
  \/ ms_deliver_handle_reset
  \/ ms_deliver_handle_remote_reset
  \/ ms_deliver_get_authorizer
  \/ ms_deliver_verify_authorizer

SpecDeliver == Init /\ [][NextDeliver]_vars

\* ------------------------------------- unsynchronized insertions
\* add_dispatcher_head / add_dispatcher_tail called by threads that share the
\* messenger without a lock: each statement is a step of its own, and the
\* list update, a data race when two overlap, is a read of the list followed
\* by a write of the list read with the new entry linked in.

\* the calls made so far: on their way or completed
CallsMade ==
  Cardinality({t \in Threads : thr[t].pc \notin {"idle", "ready"}})
    + Len(headIns) + Len(tailIns)

\* bool first = dispatchers.empty();
AddReadEmpty(t, op, d) ==
  /\ Running
  /\ thr[t].pc = "idle"
  /\ CallsMade < MaxChain
  /\ LET overlap == \E u \in Threads \ {t} : thr[u].pc # "idle"
     IN  thr' = [u \in Threads |->
                   IF u = t
                     THEN [pc |-> "push", op |-> op, d |-> d,
                           first |-> dispatchers = <<>>, list |-> <<>>,
                           raced |-> thr[t].raced \/ overlap]
                     ELSE [thr[u] EXCEPT !.raced = thr[u].raced \/ overlap]]
  /\ UNCHANGED <<msgrVars, histVars, fault, last, policyVars>>

\* dispatchers.push_front(d) / push_back(d): the list is read
AddPushRead(t) ==
  /\ Running
  /\ thr[t].pc = "push"
  /\ thr' = [thr EXCEPT ![t].pc = "write", ![t].list = dispatchers]
  /\ UNCHANGED <<msgrVars, histVars, fault, last, policyVars>>

\* dispatchers.push_front(d) / push_back(d): the list is written
AddPushWrite(t) ==
  /\ Running
  /\ thr[t].pc = "write"
  /\ IF thr[t].op = "head"
       THEN /\ dispatchers' = push_front(thr[t].list, thr[t].d)
            /\ headIns' = Append(headIns, thr[t].d)
            /\ tailIns' = tailIns
       ELSE /\ dispatchers' = push_back(thr[t].list, thr[t].d)
            /\ tailIns' = Append(tailIns, thr[t].d)
            /\ headIns' = headIns
  /\ thr' = [thr EXCEPT ![t].pc = "ready", ![t].list = <<>>]
  /\ UNCHANGED <<my_name, default_send_priority, started, fault, last,
                 readyLog, everStarted, policyVars>>

\* variant: the last step without the test of first
AddReadyAlways(t) ==
  /\ Running
  /\ thr[t].pc = "ready"
  /\ readyLog' = Append(readyLog, dispatchers)
  /\ thr' = [thr EXCEPT ![t].pc = "idle"]
  /\ UNCHANGED <<msgrVars, headIns, tailIns, everStarted, fault, last, policyVars>>

\* if (first) ready();
AddReady(t) ==
  /\ Running
  /\ thr[t].pc = "ready"
  /\ readyLog' = IF thr[t].first THEN Append(readyLog, dispatchers) ELSE readyLog
  /\ thr' = [thr EXCEPT ![t].pc = "idle"]
  /\ UNCHANGED <<msgrVars, headIns, tailIns, everStarted, fault, last, policyVars>>

NextConc ==
  \/ \E t \in Threads, op \in {"head", "tail"}, d \in Dispatchers :
       AddReadEmpty(t, op, d)
  \/ \E t \in Threads : AddPushRead(t)
  \/ \E t \in Threads : AddPushWrite(t)
  \/ \E t \in Threads : AddReady(t)

SpecConc == Init /\ [][NextConc]_vars

\* ================================================================ claims
\* the order the insertion history prescribes: head insertions, newest
\* first, then tail insertions, oldest first
InsertionOrder == Reverse(headIns) \o tailIns

IsPrefix(s, t) == Len(s) <= Len(t) /\ s = SubSeq(t, 1, Len(s))

\* index of the first chain entry whose callback claimed, 0 when none did
FirstClaim(ans) ==
  IF \E i \in DOMAIN ans : ans[i]
    THEN CHOOSE i \in DOMAIN ans : ans[i] /\ \A j \in 1 .. (i - 1) : ~ans[j]
    ELSE 0

\* the chain entries a claim-based delivery with these answers must visit
ClaimPrefix(chain, ans) ==
  IF FirstClaim(ans) = 0 THEN chain ELSE SubSeq(chain, 1, FirstClaim(ans))

EventNames(c) == [i \in 1 .. Len(c.events) |-> c.events[i].ev]

\* C1: after any sequence of add_dispatcher_head / add_dispatcher_tail calls
\* the chain is the head-inserted dispatchers in reverse insertion order
\* followed by the tail-inserted ones in insertion order, and every delivery
\* invokes its callbacks along that order.
C1_ChainOrder ==
  /\ dispatchers = InsertionOrder
  /\ last.op = "ms_deliver_dispatch"
       => IsPrefix(Invoked(last, "ms_dispatch"), InsertionOrder)
  /\ last.op = "ms_deliver_handle_reset"
       => IsPrefix(Invoked(last, "ms_handle_reset"), InsertionOrder)
  /\ last.op = "ms_deliver_handle_connect"
       => Invoked(last, "ms_handle_connect") = InsertionOrder
  /\ last.op = "ms_deliver_handle_remote_reset"
       => Invoked(last, "ms_handle_remote_reset") = InsertionOrder

\* add_head(A), add_head(B), add_head(C), then a dispatch that only the last
\* entry claims: the callbacks ran in the order C, B, A
C1_Witness ==
  /\ headIns = <<"A", "B", "C">>
  /\ tailIns = <<>>
  /\ last.op = "ms_deliver_dispatch"
  /\ Invoked(last, "ms_dispatch") = <<"C", "B", "A">>

\* C2: ms_deliver_dispatch invokes ms_dispatch on the chain entries in chain
\* order up to and including the first one that claims, and on none after.
C2_DispatchStopsAtFirstClaim ==
  last.op = "ms_deliver_dispatch"
    => /\ Invoked(last, "ms_dispatch") = ClaimPrefix(dispatchers, last.ans)
       /\ \A i \in DOMAIN last.ans :
            (FirstClaim(last.ans) # 0 /\ i > FirstClaim(last.ans))
              => Len(Invoked(last, "ms_dispatch")) < i

\* chain [A,B,C] where only B claims: A and B invoked, C not
C2_Witness ==
  /\ dispatchers = <<"A", "B", "C">>
  /\ last.op = "ms_deliver_dispatch"
  /\ last.ans = <<FALSE, TRUE, FALSE>>
  /\ Invoked(last, "ms_dispatch") = <<"A", "B">>

\* C3: ms_deliver_dispatch takes the fatal unhandled-message path (diagnostic,
\* then abort) iff no chain entry claims, the empty chain included; before
\* the fault every chain entry was invoked once; when some entry claims the
\* call returns and no diagnostic is emitted.
C3_FatalIffUnclaimed ==
  last.op = "ms_deliver_dispatch"
    => LET n == Len(last.events)
           unclaimed == \A i \in DOMAIN last.ans : ~last.ans[i]
       IN  /\ (fault = "assert(0)") <=> unclaimed
           /\ unclaimed
                => /\ Invoked(last, "ms_dispatch") = dispatchers
                   /\ n = Len(dispatchers) + 3
                   /\ last.events[n - 1].ev = "dout_emergency"
                   /\ last.events[n].ev = "assert"
           /\ ~unclaimed
                => /\ fault = "none"
                   /\ \A k \in 1 .. n :
                        last.events[k].ev \notin {"dout_emergency", "assert"}

\* a chain of two entries, neither claims: both invoked, then the fault
C3_Witness ==
  /\ last.op = "ms_deliver_dispatch"
  /\ dispatchers = <<"A", "B">>
  /\ last.ans = <<FALSE, FALSE>>
  /\ fault = "assert(0)"
  /\ EventNames(last) = <<"set_dispatch_stamp", "ms_dispatch", "ms_dispatch",
                          "dout_emergency", "assert">>

\* C4: ms_deliver_handle_connect and ms_deliver_handle_remote_reset invoke
\* the callback of every chain entry exactly once, in chain order, whatever
\* the callbacks return.
C4_Broadcast ==
  /\ last.op = "ms_deliver_handle_connect"
       => /\ Invoked(last, "ms_handle_connect") = dispatchers
          /\ Len(last.events) = Len(dispatchers)
  /\ last.op = "ms_deliver_handle_remote_reset"
       => /\ Invoked(last, "ms_handle_remote_reset") = dispatchers
          /\ Len(last.events) = Len(dispatchers)

\* a remote reset over [A,B,C] whose first entry answers true: all three ran
C4_Witness ==
  /\ last.op = "ms_deliver_handle_remote_reset"
  /\ dispatchers = <<"A", "B", "C">>
  /\ last.ans = <<TRUE, FALSE, TRUE>>
  /\ Invoked(last, "ms_handle_remote_reset") = <<"A", "B", "C">>

\* C5: ms_deliver_handle_reset invokes ms_handle_reset in chain order up to
\* and including the first entry that claims and on none after it; when none
\* claims every entry is invoked once, and the call returns either way.
C5_ResetStopsAtFirstClaim ==
  last.op = "ms_deliver_handle_reset"
    => /\ Invoked(last, "ms_handle_reset") = ClaimPrefix(dispatchers, last.ans)
       /\ Len(last.events) = Len(Invoked(last, "ms_handle_reset"))
       /\ (\A i \in DOMAIN last.ans : ~last.ans[i])
            => Invoked(last, "ms_handle_reset") = dispatchers
       /\ fault = "none"

\* chain [A,B] where A claims the local reset: B is not invoked
C5_Witness ==
  /\ last.op = "ms_deliver_handle_reset"
  /\ dispatchers = <<"A", "B">>
  /\ last.ans[1]
  /\ Invoked(last, "ms_handle_reset") = <<"A">>

\* C6: over any sequence of insertions, in any lifecycle state, ready() is
\* called once in total: by the insertion that makes the chain non-empty and
\* by no later one.
C6_ReadyOnce ==
  /\ [](Len(readyLog) = IF Len(headIns) + Len(tailIns) > 0 THEN 1 ELSE 0)
  /\ [][(Len(readyLog') = Len(readyLog) + 1)
          <=> (dispatchers = <<>> /\ dispatchers' # <<>>)]_vars
  /\ [][Len(readyLog') # Len(readyLog) => Len(readyLog') = Len(readyLog) + 1]_vars

\* three insertions of both kinds around a start(): still one ready() call
C6_Witness ==
  /\ Len(readyLog) = 1
  /\ Len(headIns) >= 1
  /\ Len(tailIns) >= 2
  /\ started

\* C7: is_ready() is true iff the chain is non-empty, and once true it stays
\* true, across start() and shutdown() too.
C7_IsReady ==
  /\ [](is_ready <=> Len(dispatchers) > 0)
  /\ [](is_ready <=> Len(headIns) + Len(tailIns) > 0)
  /\ [][is_ready => is_ready']_vars

\* a non-empty chain after start() and shutdown()
C7_Witness ==
  /\ is_ready
  /\ everStarted
  /\ ~started
  /\ last.op = "shutdown"

\* --------------------------------------------------- Policy construction
ConstructDefault ==
  /\ policy' = PolicyDefault
  /\ policyCall' = PolicyCall("Policy", FALSE, FALSE, 0, 0)
  /\ UNCHANGED <<msgrVars, histVars, fault, last, thr>>

Construct4 ==
  \E l \in BOOLEAN, s \in BOOLEAN, sup \in Masks, req \in Masks :
    /\ policy' = Policy(l, s, sup, req)
    /\ policyCall' = PolicyCall("Policy4", l, s, sup, req)
    /\ UNCHANGED <<msgrVars, histVars, fault, last, thr>>

ConstructStatefulServer ==
  \E sup \in Masks, req \in Masks :
    /\ policy' = stateful_server(sup, req)
    /\ policyCall' = PolicyCall("stateful_server", FALSE, FALSE, sup, req)
    /\ UNCHANGED <<msgrVars, histVars, fault, last, thr>>

ConstructStatelessServer ==
  \E sup \in Masks, req \in Masks :
    /\ policy' = stateless_server(sup, req)
    /\ policyCall' = PolicyCall("stateless_server", FALSE, FALSE, sup, req)
    /\ UNCHANGED <<msgrVars, histVars, fault, last, thr>>

ConstructLosslessPeer ==
  \E sup \in Masks, req \in Masks :
    /\ policy' = lossless_peer(sup, req)
    /\ policyCall' = PolicyCall("lossless_peer", FALSE, FALSE, sup, req)
    /\ UNCHANGED <<msgrVars, histVars, fault, last, thr>>

ConstructClient ==
  \E sup \in Masks, req \in Masks :
    /\ policy' = client(sup, req)
    /\ policyCall' = PolicyCall("client", FALSE, FALSE, sup, req)
    /\ UNCHANGED <<msgrVars, histVars, fault, last, thr>>

NextPolicy ==
  \/ ConstructDefault
  \/ Construct4
  \/ ConstructStatefulServer
  \/ ConstructStatelessServer
  \/ ConstructLosslessPeer
  \/ ConstructClient

SpecPolicy == Init /\ [][NextPolicy]_vars

\* C8: the named constructors give (lossy, server) = stateful_server
\* (false, true), stateless_server (true, true), lossless_peer (false, false),
\* client (false, false); each leaves the throttler NULL and stores req as
\* features_required.
C8_NamedConstructors ==
  LET expect == [stateful_server |-> <<FALSE, TRUE>>,
                 stateless_server |-> <<TRUE, TRUE>>,
                 lossless_peer |-> <<FALSE, FALSE>>,
                 client |-> <<FALSE, FALSE>>]
  IN  policyCall.ctor \in DOMAIN expect
        => /\ <<policy.lossy, policy.server>> = expect[policyCall.ctor]
           /\ policy.throttler = "NULL"
           /\ policy.features_required = policyCall.req

\* stateless_server(0, 3)
C8_Witness ==
  /\ policyCall.ctor = "stateless_server"
  /\ policyCall.sup = 0
  /\ policyCall.req = 3
  /\ policy.lossy
  /\ policy.server

\* bit b of mask x
Bit(x, b) == (x \div (2 ^ b)) % 2 = 1

\* C9: whatever the constructor, features_supported has exactly the bits of
\* sup and of the baseline-default mask (sup is empty for Policy()).
C9_FeaturesSupported ==
  /\ policy.features_supported \in Masks
  /\ \A b \in 0 .. (FeatureBits - 1) :
       Bit(policy.features_supported, b)
         <=> (Bit(policyCall.sup, b) \/ Bit(CEPH_FEATURES_SUPPORTED_DEFAULT, b))

\* client(0, req): the baseline bits are there although sup is 0
C9_Witness ==
  /\ policyCall.ctor = "client"
  /\ policyCall.sup = 0
  /\ policy.features_supported = CEPH_FEATURES_SUPPORTED_DEFAULT
  /\ CEPH_FEATURES_SUPPORTED_DEFAULT # 0

\* C10: while started, set_default_send_priority(p) fails its assertion and
\* leaves default_send_priority as it was; before the first start() it
\* succeeds and get_default_send_priority() then returns p.
C10_SetPriority ==
  [][\A p \in Priorities :
       set_default_send_priority(p)
         => /\ started
                => /\ fault' = "assert(!started)"
                   /\ default_send_priority' = default_send_priority
            /\ ~everStarted
                => /\ fault' = "none"
                   /\ get_default_send_priority' = p]_vars

\* start(), then a call with a priority other than the current one: the
\* process aborted and the priority is the old one
C10_Witness ==
  /\ last.op = "set_default_send_priority"
  /\ started
  /\ fault = "assert(!started)"
  /\ last.arg # default_send_priority

\* ------------------------------------------------------------ lifecycle
\* the lifecycle state the call history defines
Lifecycle ==
  IF ~everStarted THEN "Created" ELSE IF started THEN "Started" ELSE "Stopped"

\* C11: set_default_send_priority(p) is valid only before the first start():
\* in every state reached after start(), the Stopped state after a later
\* shutdown() included, the call fails its assertion and leaves
\* default_send_priority as it was.
C11_SetPriorityOnlyInCreated ==
  [][\A p \in Priorities :
       (set_default_send_priority(p) /\ everStarted)
         => /\ fault' = "assert(!started)"
            /\ default_send_priority' = default_send_priority]_vars

\* C12: the lifecycle is forward-only, Created -> Started -> Stopped: the
\* object starts in Created, start() moves Created to Started, shutdown()
\* moves Started to Stopped, and nothing takes a Stopped messenger to another
\* state.
C12_ForwardOnlyLifecycle ==
  /\ [](~everStarted => ~started)
  /\ [][(start /\ Lifecycle = "Created")
          => (started' /\ Lifecycle' = "Started" /\ last'.ret = 0)]_vars
  /\ [][(shutdown /\ Lifecycle = "Started")
          => (~started' /\ Lifecycle' = "Stopped" /\ last'.ret = 0)]_vars
  /\ [][Lifecycle = "Stopped" => (Lifecycle' = "Stopped" /\ ~started')]_vars

\* ------------------------------------------------- rebind, duplicates, stamp
\* C15: the base rebind(avoid_port) returns -EOPNOTSUPP, a negative value,
\* for every avoid_port and in every lifecycle state, and leaves started,
\* the chain, the name and the default send priority as they were.
C15_RebindNotSupported ==
  [][\A avoid_port \in Ports :
       rebind(avoid_port)
         => /\ last'.ret = -EOPNOTSUPP
            /\ last'.ret < 0
            /\ fault' = "none"
            /\ started' = started
            /\ dispatchers' = dispatchers
            /\ my_name' = my_name
            /\ default_send_priority' = default_send_priority]_vars

\* rebind on a started messenger with a chain and a changed priority
C15_Witness ==
  /\ last.op = "rebind"
  /\ last.ret = -EOPNOTSUPP
  /\ started
  /\ dispatchers # <<>>
  /\ default_send_priority # CEPH_MSG_PRIO_DEFAULT

\* number of entries of sequence s that are d
Count(s, d) == Cardinality({i \in DOMAIN s : s[i] = d})

\* C16: a dispatcher registered k times, by any mix of add_dispatcher_head
\* and add_dispatcher_tail, has k chain entries and is invoked k times by a
\* broadcast delivery; the chain is as long as the number of insertions.
C16_Duplicates ==
  /\ Len(dispatchers) = Len(headIns) + Len(tailIns)
  /\ \A d \in Dispatchers :
       /\ Count(dispatchers, d) = Count(headIns, d) + Count(tailIns, d)
       /\ last.op = "ms_deliver_handle_connect"
            => Count(Invoked(last, "ms_handle_connect"), d)
                 = Count(headIns, d) + Count(tailIns, d)
       /\ last.op = "ms_deliver_handle_remote_reset"
            => Count(Invoked(last, "ms_handle_remote_reset"), d)
                 = Count(headIns, d) + Count(tailIns, d)

\* A registered twice at the tail and once at the head; a connect event
\* invokes it three times
C16_Witness ==
  /\ headIns = <<"A">>
  /\ tailIns = <<"A", "A">>
  /\ last.op = "ms_deliver_handle_connect"
  /\ Invoked(last, "ms_handle_connect") = <<"A", "A", "A">>

\* C17: every ms_deliver_dispatch call stamps the message exactly once, as
\* its first step, before any ms_dispatch callback; also when the chain is
\* empty or nobody claims and the call ends on the fatal path.
C17_StampFirst ==
  last.op = "ms_deliver_dispatch"
    => /\ Len(last.events) >= 1
       /\ last.events[1].ev = "set_dispatch_stamp"
       /\ Count(EventNames(last), "set_dispatch_stamp") = 1
       /\ \A i, j \in DOMAIN last.events :
            (last.events[i].ev = "set_dispatch_stamp"
               /\ last.events[j].ev \in {"ms_dispatch", "dout_emergency", "assert"})
              => i < j

\* the empty chain: the stamp, then the fatal path
C17_Witness ==
  /\ last.op = "ms_deliver_dispatch"
  /\ dispatchers = <<>>
  /\ EventNames(last) = <<"set_dispatch_stamp", "dout_emergency", "assert">>
  /\ fault = "assert(0)"

\* C20: when ready() runs, the dispatcher whose insertion triggered it is
\* already in the chain: is_ready() holds and the chain has that one entry.
C20_ReadySeesInsertion ==
  /\ \A i \in DOMAIN readyLog : Len(readyLog[i]) = 1
  /\ (last.op \in {"add_dispatcher_head", "add_dispatcher_tail"}
        /\ Count(EventNames(last), "ready") = 1)
       => /\ readyLog # <<>>
          /\ readyLog[Len(readyLog)] = <<last.arg>>
          /\ readyLog[Len(readyLog)] = dispatchers
          /\ is_ready

\* add_dispatcher_head(B) on the empty chain
C20_Witness ==
  /\ last.op = "add_dispatcher_head"
  /\ last.arg = "B"
  /\ EventNames(last) = <<"ready">>
  /\ readyLog = << <<"B">> >>

\* ------------------------------------------------------------ authorizers
\* the return values of the ms_get_authorizer callbacks, entry by entry
AuthRets(ans) == [i \in DOMAIN ans |-> ans[i].ret]

\* the invoked chain entries whose callback stored an authorizer
Producers(c) ==
  {i \in 1 .. Len(Invoked(c, "ms_get_authorizer")) : c.ans[i].out = "new"}

\* the authorizer the out-parameter holds after entries 1 .. k have run
LastStored(ans, k) ==
  IF \E i \in 1 .. k : ans[i].out = "new"
    THEN CHOOSE i \in 1 .. k :
           ans[i].out = "new" /\ \A j \in (i + 1) .. k : ans[j].out # "new"
    ELSE NullAuthorizer

\* C13 as stated: ms_deliver_get_authorizer stops at the first dispatcher
\* producing a non-null authorizer; the result is non-null exactly when some
\* dispatcher produced one, it is the authorizer of the dispatcher at which
\* iteration stopped, and NULL only when no dispatcher produced one.
C13_ReturnsStoppersAuthorizer ==
  last.op = "ms_deliver_get_authorizer"
    => LET n == Len(Invoked(last, "ms_get_authorizer"))
       IN  /\ (last.ret # NullAuthorizer) <=> (Producers(last) # {})
           /\ last.ret # NullAuthorizer => last.ret = n
           /\ n < Len(dispatchers) => last.ans[n].out = "new"
           /\ \A i \in 1 .. (n - 1) : last.ans[i].out # "new"

\* C13 amended: ms_deliver_get_authorizer stops at the first dispatcher whose
\* ms_get_authorizer returns true and invokes none after it; it returns what
\* the out-parameter holds then, the authorizer stored last by an invoked
\* dispatcher or NULL when none stored one; it returns NULL when no
\* dispatcher returns true.  When every invoked dispatcher returns true
\* exactly if it stored an authorizer, the result is the authorizer of the
\* dispatcher at which iteration stopped, and is NULL only when none
\* produced one.
C13_ReturnsAtFirstTrue ==
  last.op = "ms_deliver_get_authorizer"
    => LET inv == Invoked(last, "ms_get_authorizer")
           n == Len(inv)
           k == FirstClaim(AuthRets(last.ans))
       IN  /\ inv = ClaimPrefix(dispatchers, AuthRets(last.ans))
           /\ Len(last.events) = n
           /\ k = 0 => last.ret = NullAuthorizer
           /\ k # 0 => last.ret = LastStored(last.ans, k)
           /\ (\A i \in 1 .. n : last.ans[i].ret <=> last.ans[i].out = "new")
                => /\ (last.ret # NullAuthorizer) <=> (Producers(last) # {})
                   /\ last.ret # NullAuthorizer => last.ret = n
           /\ fault = "none"

\* chain [A,B,C]: A declines, B stores an authorizer and returns true
C13_Witness ==
  /\ last.op = "ms_deliver_get_authorizer"
  /\ dispatchers = <<"A", "B", "C">>
  /\ last.ans[1] = [ret |-> FALSE, out |-> "keep"]
  /\ last.ans[2] = [ret |-> TRUE, out |-> "new"]
  /\ Invoked(last, "ms_get_authorizer") = <<"A", "B">>
  /\ last.ret = 2

\* C14: ms_deliver_verify_authorizer invokes the chain entries in order and
\* stops at the first one that returns true; it returns true iff some
\* dispatcher returned true, whatever isvalid is, and false for the empty
\* chain or when every dispatcher declines, each then invoked once.
C14_VerifyStopsAtFirstResult ==
  last.op = "ms_deliver_verify_authorizer"
    => LET inv == Invoked(last, "ms_verify_authorizer")
           declined == \A i \in DOMAIN last.ans : ~last.ans[i]
       IN  /\ inv = ClaimPrefix(dispatchers, last.ans)
           /\ Len(last.events) = Len(inv)
           /\ last.ret \in BOOLEAN
           /\ last.ret <=> (inv # <<>> /\ last.ans[Len(inv)])
           /\ last.ret <=> ~declined
           /\ declined => (inv = dispatchers /\ last.ret = FALSE)

\* chain [A,B], the second entry returns true with isvalid false: the call
\* returns true
C14_Witness ==
  /\ last.op = "ms_deliver_verify_authorizer"
  /\ dispatchers = <<"A", "B">>
  /\ last.ans = <<FALSE, TRUE>>
  /\ last.arg = FALSE
  /\ last.ret = TRUE

\* the deliveries other than ms_deliver_dispatch
QuietDeliveries ==
  {"ms_deliver_handle_connect", "ms_deliver_handle_reset",
   "ms_deliver_handle_remote_reset", "ms_deliver_get_authorizer",
   "ms_deliver_verify_authorizer"}

\* C19: only ms_deliver_dispatch reaches the fatal unhandled path; the other
\* five deliveries return for every chain, the empty one included, and when
\* nothing is claimed ms_deliver_get_authorizer returns NULL and
\* ms_deliver_verify_authorizer returns false.
C19_OnlyDispatchIsFatal ==
  /\ fault = "assert(0)" => last.op = "ms_deliver_dispatch"
  /\ last.op \in QuietDeliveries
       => /\ fault = "none"
          /\ \A k \in DOMAIN last.events :
               last.events[k].ev \notin {"dout_emergency", "assert"}
  /\ (last.op = "ms_deliver_get_authorizer"
        /\ \A i \in DOMAIN last.ans : ~last.ans[i].ret)
       => last.ret = NullAuthorizer
  /\ (last.op = "ms_deliver_verify_authorizer"
        /\ \A i \in DOMAIN last.ans : ~last.ans[i])
       => last.ret = FALSE

\* a local reset over three entries that nobody claims: the call returned
C19_Witness ==
  /\ last.op = "ms_deliver_handle_reset"
  /\ Len(dispatchers) = 3
  /\ last.ans = <<FALSE, FALSE, FALSE>>
  /\ Len(last.events) = 3
  /\ fault = "none"

\* ------------------------------------------------- unsynchronized insertions
AllIdle == \A t \in Threads : thr[t].pc = "idle"

\* C18 as stated: two threads insert into the empty chain and their steps
\* interleave without synchronization; ready() is still called exactly once
\* and both dispatchers are in the chain.
C18_ReadyOnceWhenInterleaved ==
  (AllIdle /\ Len(headIns) + Len(tailIns) = 2
     /\ \A t \in Threads : thr[t].raced)
    => /\ Len(readyLog) = 1
       /\ Len(dispatchers) = 2
       /\ \A t \in Threads : \E i \in DOMAIN dispatchers : dispatchers[i] = thr[t].d

\* C18 amended: when the insertions are serialized (no call begins while
\* another is under way), ready() is called exactly once in total, by the
\* insertion into the empty chain, and every inserted dispatcher is in the
\* chain.
C18_ReadyOnceWhenSerialized ==
  (AllIdle /\ \A t \in Threads : ~thr[t].raced)
    => /\ Len(readyLog) = IF Len(headIns) + Len(tailIns) > 0 THEN 1 ELSE 0
       /\ Len(dispatchers) = Len(headIns) + Len(tailIns)
       /\ dispatchers = InsertionOrder

\* both threads have inserted, one call after the other
C18_Witness ==
  /\ AllIdle
  /\ \A t \in Threads : thr[t].op # "-" /\ ~thr[t].raced
  /\ Len(headIns) + Len(tailIns) = 2
  /\ Len(readyLog) = 1
  /\ Len(dispatchers) = 2
====
